---- MODULE Spec2Model ----
(***************************************************************************)
(* A model of nengo_dl/builder.py: the registry of operator build classes  *)
(* (Builder.builders, Builder.register), the three build phases of the     *)
(* orchestrator (Builder.pre_build, Builder.build, Builder.post_build),    *)
(* the base build class OpBuilder, NengoBuilder.build and                  *)
(* NengoModel.add_op.                                                      *)
(*                                                                         *)
(* Every public call is one action.  The loop of a phase is a recursive    *)
(* operator over the plan positions; what the call did (the constructors,  *)
(* build_step and build_post invocations, in order) is kept in the record  *)
(* of the last call, `call`.                                               *)
(***************************************************************************)
EXTENDS Naturals, Sequences, FiniteSets

\* ------------------------------------------------------------------ bounds

\* Largest number of Builder.register calls in a behaviour.
MaxRegister == 2

\* Largest number of operator groups in a plan.
MaxPlan == 3

\* Largest number of operators added to a NengoModel.
MaxOps == 3

\* Largest identity of an operator handed to mergeable.
MaxOpId == 4

\* ------------------------------------------------- operators, groups, plans

\* The operator types (classes of nengo.builder.Operator) of the model.
OpTypes == {"T1", "T2"}

Op(t, n) == [type |-> t, id |-> n]

\* Operator groups: tuples of operators of one type, as the planner makes them.
GroupA == <<Op("T1", 1), Op("T1", 2)>>

GroupB == <<Op("T2", 3)>>

GroupC == <<Op("T1", 4)>>

Groups == {GroupA, GroupB, GroupC}

\* type(ops[0]): the type of the representative operator of a group.
TypeOf(ops) == ops[1].type

RECURSIVE SeqsNoRepeat(_)
\* The plans of exactly n pairwise different groups.
SeqsNoRepeat(n) ==
    IF n = 0 THEN {<<>>}
    ELSE {Append(s, g) : s \in SeqsNoRepeat(n - 1), g \in Groups} \cap
         {s \in [1..n -> Groups] : \A i, j \in 1..n : s[i] = s[j] => i = j}

Plans == UNION {SeqsNoRepeat(n) : n \in 1..MaxPlan}

\* BuildConfig(inference_only, lif_smoothing, cpu_only), an immutable tuple.
Configs == {[inference_only |-> FALSE, lif_smoothing |-> "0", cpu_only |-> TRUE]}

\* ------------------------------------------------------------ build classes

\* The build classes that get registered.  "OpBuilder" is the base class
\* itself; "PlainBuilder" does not inherit from OpBuilder; the others are
\* subclasses that override build_step.
BuildClasses == {"OpBuilder", "TensorBuilder", "ListBuilder", "NoneBuilder",
                 "OpOnlyBuilder", "PlainBuilder"}

\* issubclass(build_class, OpBuilder)
IsOpBuilder(build_class) == build_class # "PlainBuilder"

\* Whether the class defines its own build_step (the base class does not).
OverridesBuildStep(build_class) == build_class # "OpBuilder"

NoExc == [type |-> "None", msg |-> "", arg |-> "", pos |-> 0]

Raise(type, msg, arg, pos) == [type |-> type, msg |-> msg, arg |-> arg, pos |-> pos]

Handle(build_class, ops, k) == [by |-> build_class, ops |-> ops, k |-> k]

\* What build_step of an instance of build_class returns for its group:
\* a tf.Tensor, a list with one tensor per operator, None, a tf.Operation
\* (neither a tensor nor a sequence), or a tuple (a variable and a tensor).
StepOutput(build_class, ops) ==
    CASE build_class = "TensorBuilder" ->
           [kind |-> "Tensor", val |-> <<Handle(build_class, ops, 1)>>]
      [] build_class = "ListBuilder" ->
           [kind |-> "list",
            val |-> [k \in 1..Len(ops) |-> Handle(build_class, ops, k)]]
      [] build_class = "NoneBuilder" ->
           [kind |-> "None", val |-> <<>>]
      [] build_class = "OpOnlyBuilder" ->
           [kind |-> "Operation", val |-> <<Handle(build_class, ops, 1)>>]
      [] build_class = "PlainBuilder" ->
           [kind |-> "tuple",
            val |-> <<Handle(build_class, ops, 1), Handle(build_class, ops, 2)>>]

VARIABLES
    builders,    \* Builder.builders: operator type -> build class
    regCount,    \* how often each operator type has been registered
    latest,      \* the build class of the latest registration of each type
    plan,        \* self.plan
    config,      \* self.config
    signals,     \* self.signals: the keys builders have written
    op_builds,   \* self.op_builds: group -> builder instance
    call,        \* the last call on the registry or the orchestrator
    operators,   \* NengoModel.operators
    fail_fast,   \* NengoModel.fail_fast
    added,       \* the last NengoModel.add_op call and what it did
    nbuilders,   \* NengoBuilder.builders: object type -> build function
    dbuilders,   \* nengo.builder.Builder.builders
    built,       \* the objects the nengo model has built
    ncall,       \* the last call on NengoBuilder or nengo's Builder
    merged       \* the last OpBuilder.mergeable call and what it returned

bvars == <<builders, regCount, latest, plan, config, signals, op_builds, call>>

mvars == <<operators, fail_fast, added>>

nvars == <<nbuilders, dbuilders, built, ncall>>

ovars == <<merged>>

vars == <<bvars, mvars, nvars, ovars>>

\* ------------------------------------------------------------- dictionaries

\* d[k] = v of a Python dict: k is added to the keys or its value replaced.
DictSet(d, k, v) == [x \in (DOMAIN d) \cup {k} |-> IF x = k THEN v ELSE d[x]]

EmptyDict == [x \in {} |-> x]

\* --------------------------------------------------------- Builder.register

NotSubclassWarning == "Build classes should inherit from OpBuilder"

OverwriteWarning == "Operator %s already has a builder. Overwriting."

\* The warnings of register_builder, in the order the code emits them.
RegisterWarnings(reg, nengo_op, build_class) ==
    (IF ~IsOpBuilder(build_class)
     THEN <<[msg |-> NotSubclassWarning, arg |-> ""]>> ELSE <<>>) \o
    (IF nengo_op \in DOMAIN reg
     THEN <<[msg |-> OverwriteWarning, arg |-> nengo_op]>> ELSE <<>>)

\* A register that keeps the first build class of an operator type.
RegisterFirstWins(reg, nengo_op, build_class) ==
    IF nengo_op \in DOMAIN reg THEN reg ELSE DictSet(reg, nengo_op, build_class)

\* A register that turns away a class that is no subclass of OpBuilder.
RegisterSubclassOnly(reg, nengo_op, build_class) ==
    IF IsOpBuilder(build_class) THEN DictSet(reg, nengo_op, build_class) ELSE reg

\* A register that starts the registry afresh.
RegisterAfresh(reg, nengo_op, build_class) == DictSet(EmptyDict, nengo_op, build_class)

\* cls.builders[nengo_op] = build_class
RegisterBuilder(reg, nengo_op, build_class) == DictSet(reg, nengo_op, build_class)

NoArgs == [progress |-> FALSE, sess |-> "None", rng |-> "None",
           nengo_op |-> "None", build_class |-> "None"]

RegisterCalls == regCount["T1"] + regCount["T2"]

\* A register that also re-types the instances already stored for the type.
RegisterRebuilds(nengo_op, build_class) ==
    /\ RegisterCalls < MaxRegister
    /\ call' = [op |-> "register",
                args |-> [NoArgs EXCEPT !.nengo_op = nengo_op,
                                        !.build_class = build_class],
                trace |-> <<>>, steps |-> 0, exc |-> NoExc, ret |-> <<>>,
                decorated |-> build_class, returned |-> TRUE,
                warnings |-> RegisterWarnings(builders, nengo_op, build_class)]
    /\ builders' = RegisterBuilder(builders, nengo_op, build_class)
    /\ regCount' = [regCount EXCEPT ![nengo_op] = @ + 1]
    /\ latest' = [latest EXCEPT ![nengo_op] = build_class]
    /\ op_builds' = [g \in DOMAIN op_builds |->
                        IF g[1].type = nengo_op
                        THEN [op_builds[g] EXCEPT !.cls = build_class]
                        ELSE op_builds[g]]
    /\ UNCHANGED <<plan, config, signals, mvars, nvars, ovars>>

\* Builder.register(nengo_op)(build_class)
Register(nengo_op, build_class) ==
    /\ RegisterCalls < MaxRegister
    /\ call' = [op |-> "register",
                args |-> [NoArgs EXCEPT !.nengo_op = nengo_op,
                                        !.build_class = build_class],
                trace |-> <<>>, steps |-> 0, exc |-> NoExc, ret |-> <<>>,
                decorated |-> build_class, returned |-> TRUE,
                warnings |-> RegisterWarnings(builders, nengo_op, build_class)]
    /\ builders' = RegisterBuilder(builders, nengo_op, build_class)
    /\ regCount' = [regCount EXCEPT ![nengo_op] = @ + 1]
    /\ latest' = [latest EXCEPT ![nengo_op] = build_class]
    /\ UNCHANGED <<plan, config, signals, op_builds, mvars, nvars, ovars>>

\* ------------------------------------------------------------------ OpBuilder

\* OpBuilder.__init__(ops, signals, config): the instance keeps the config.
NewInstance(build_class, ops, cfg) == [cls |-> build_class, ops |-> ops, config |-> cfg]

\* The signal keys the constructor of a build class writes: the base class
\* writes none, the other classes set up the constants of their group.
InitWrites(build_class, ops) == IF build_class = "OpBuilder" THEN {} ELSE {ops}

BuildStepError == "OpBuilders must implement a build_step function"

\* A base class whose build_step returns None.
build_step_none(build_class, ops, sigs) ==
    IF ~(InitWrites(build_class, ops) \subseteq sigs)
    THEN [exc |-> Raise("KeyError", "signals", build_class, 0),
          output |-> [kind |-> "None", val |-> <<>>]]
    ELSE [exc |-> NoExc,
          output |-> IF OverridesBuildStep(build_class)
                     THEN StepOutput(build_class, ops)
                     ELSE [kind |-> "None", val |-> <<>>]]

\* build_step(signals) of an instance of build_class for its group.  The base
\* class raises BuildError (line 235).  A class that overrides it reads the
\* constants its constructor wrote to the signals, a KeyError of the signal
\* mapping when they are gone, and returns its output.
build_step(build_class, ops, sigs) ==
    IF ~OverridesBuildStep(build_class)
    THEN [exc |-> Raise("BuildError", BuildStepError, build_class, 0),
          output |-> [kind |-> "None", val |-> <<>>]]
    ELSE IF ~(InitWrites(build_class, ops) \subseteq sigs)
    THEN [exc |-> Raise("KeyError", "signals", build_class, 0),
          output |-> [kind |-> "None", val |-> <<>>]]
    ELSE [exc |-> NoExc, output |-> StepOutput(build_class, ops)]

\* A build_post that drops the constants of its group from the signals.
build_post_drops(build_class, ops, sigs, sess, rng) ==
    [exc |-> NoExc, signals |-> sigs \ {ops}]

\* OpBuilder.build_post(ops, signals, sess, rng): the body is empty, the
\* signals stay as they are and nothing is raised.
build_post(build_class, ops, sigs, sess, rng) == [exc |-> NoExc, signals |-> sigs]

\* OpBuilder.mergeable(x, y)
mergeable_same_type(x, y) == x.type = y.type

mergeable(x, y) == FALSE

\* The operators a planner may ask about.
MergeOps == {Op(t, n) : t \in OpTypes, n \in 1..MaxOpId}

NoMerge == [self |-> NewInstance("None", <<>>, CHOOSE c \in Configs : TRUE),
            x |-> Op("None", 0), y |-> Op("None", 0), ret |-> FALSE]

\* self.mergeable(x, y) on an instance of the base class.
Mergeable(self, x, y) ==
    /\ merged' = [self |-> self, x |-> x, y |-> y, ret |-> mergeable(x, y)]
    /\ UNCHANGED <<bvars, mvars, nvars>>

\* ------------------------------------------------------ Builder.name_scope

\* The name scope of a group: the name of the build class that the registry
\* holds now for the type of the group's first operator.
name_scope(ops) == builders[TypeOf(ops)]

Event(ev, ops, cls, scope, seen, sess, rng) ==
    [ev |-> ev, ops |-> ops, cls |-> cls, scope |-> scope, seen |-> seen,
     sess |-> sess, rng |-> rng]

Step(progress, steps) == IF progress THEN steps + 1 ELSE steps

\* A loop that runs through the plan from its end.
GroupAtReversed(i) == plan[Len(plan) + 1 - i]

\* for ops in self.plan: the group of the i-th iteration.
GroupAt(i) == plan[i]

At(exc, i) == [exc EXCEPT !.pos = i]

\* -------------------------------------------------------- Builder.pre_build

UnregisteredError == "No registered builder for operators of type %r"

\* A pre_build that rolls back what it has stored before it raises.
UnregisteredRollback(st, ops, i) ==
    [st EXCEPT !.exc = Raise("BuildError", UnregisteredError, TypeOf(ops), i),
               !.op_builds = op_builds]

\* A pre_build that stores a placeholder before it raises.
UnregisteredStored(st, ops, i) ==
    [st EXCEPT !.exc = Raise("BuildError", UnregisteredError, TypeOf(ops), i),
               !.op_builds = DictSet(@, ops, NewInstance("OpBuilder", ops, config))]

\* Lines 68-70: the BuildError that names the type of the first operator;
\* nothing is stored for the group.
Unregistered(st, ops, i) ==
    [st EXCEPT !.exc = Raise("BuildError", UnregisteredError, TypeOf(ops), i)]

\* A pre_build that keys the instance by the first operator of the group.
StoreBuildFirstOp(builds, ops, inst) == DictSet(builds, <<ops[1]>>, inst)

\* A pre_build that keys the instance by the operator type, not by the group.
StoreBuildByType(builds, ops, inst) ==
    DictSet(builds, IF TypeOf(ops) = "T1" THEN GroupA ELSE GroupB, inst)

\* self.op_builds[ops] = BuildClass(ops, self.signals, self.config)
StoreBuild(builds, ops, inst) == DictSet(builds, ops, inst)

RECURSIVE PreBuildFrom(_, _, _)
\* The loop of pre_build from plan position i on; st holds op_builds, signals,
\* the constructor calls made so far, the progress steps and the exception.
PreBuildFrom(i, progress, st) ==
    IF i > Len(plan) THEN st
    ELSE LET ops == GroupAt(i) IN
         IF TypeOf(ops) \notin DOMAIN builders
         THEN Unregistered(st, ops, i)
         ELSE LET BuildClass == builders[TypeOf(ops)]
                  inst == NewInstance(BuildClass, ops, config)
              IN PreBuildFrom(i + 1, progress,
                    [st EXCEPT
                       !.trace = Append(@, Event("construct", ops, BuildClass,
                                                 name_scope(ops), st.signals,
                                                 "None", "None")),
                       !.signals = @ \cup InitWrites(BuildClass, ops),
                       !.op_builds = StoreBuild(@, ops, inst),
                       !.steps = Step(progress, @)])

\* Builder.pre_build(progress)
PreBuild(progress) ==
    LET r == PreBuildFrom(1, progress,
                 [op_builds |-> op_builds, signals |-> signals, trace |-> <<>>,
                  steps |-> 0, exc |-> NoExc])
    IN /\ op_builds' = r.op_builds
       /\ signals' = r.signals
       /\ call' = [op |-> "pre_build", args |-> [NoArgs EXCEPT !.progress = progress],
                   trace |-> r.trace, steps |-> r.steps, exc |-> r.exc,
                   ret |-> <<>>, returned |-> r.exc = NoExc,
                   decorated |-> "None", warnings |-> <<>>]
       /\ UNCHANGED <<builders, regCount, latest, plan, config, mvars, nvars, ovars>>

\* ------------------------------------------------------------ Builder.build

\* A build that appends a list or tuple as one element.
CollectNested(side_effects, output) ==
    IF output.kind \in {"Tensor", "Variable"}
    THEN Append(side_effects, output.val[1])
    ELSE IF output.kind \in {"list", "tuple"}
    THEN Append(side_effects, output.val[1])
    ELSE side_effects

\* Lines 106-109: a tensor or variable is appended, a list or tuple is
\* extended into the collection, anything else is dropped.
Collect(side_effects, output) ==
    IF output.kind \in {"Tensor", "Variable"}
    THEN Append(side_effects, output.val[1])
    ELSE IF output.kind \in {"list", "tuple"}
    THEN side_effects \o output.val
    ELSE side_effects

RECURSIVE BuildFromSkipsMissing(_, _, _)
\* A build that passes over a group that has no entry in op_builds.
BuildFromSkipsMissing(i, progress, st) ==
    IF i > Len(plan) THEN st
    ELSE LET ops == GroupAt(i) IN
         IF TypeOf(ops) \notin DOMAIN builders
         THEN [st EXCEPT !.exc = Raise("KeyError", "name_scope", TypeOf(ops), i)]
         ELSE IF ops \notin DOMAIN op_builds
         THEN BuildFromSkipsMissing(i + 1, progress, st)
         ELSE LET inst == op_builds[ops]
                  ev == Event("build_step", ops, inst.cls, name_scope(ops),
                              signals, "None", "None")
                  r == build_step(inst.cls, ops, signals)
              IN IF r.exc # NoExc
                 THEN [st EXCEPT !.trace = Append(@, ev), !.exc = At(r.exc, i)]
                 ELSE BuildFromSkipsMissing(i + 1, progress,
                        [st EXCEPT
                           !.trace = Append(@, ev),
                           !.side_effects = Collect(@, r.output),
                           !.steps = Step(progress, @)])

RECURSIVE BuildFrom(_, _, _)
\* The loop of build from plan position i on.
BuildFrom(i, progress, st) ==
    IF i > Len(plan) THEN st
    ELSE LET ops == GroupAt(i) IN
         IF TypeOf(ops) \notin DOMAIN builders
         THEN [st EXCEPT !.exc = Raise("KeyError", "name_scope", TypeOf(ops), i)]
         ELSE IF ops \notin DOMAIN op_builds
         THEN [st EXCEPT !.exc = Raise("KeyError", "op_builds", TypeOf(ops), i)]
         ELSE LET inst == op_builds[ops]
                  ev == Event("build_step", ops, inst.cls, name_scope(ops),
                              signals, "None", "None")
                  r == build_step(inst.cls, ops, signals)
              IN IF r.exc # NoExc
                 THEN [st EXCEPT !.trace = Append(@, ev), !.exc = At(r.exc, i)]
                 ELSE BuildFrom(i + 1, progress,
                        [st EXCEPT
                           !.trace = Append(@, ev),
                           !.side_effects = Collect(@, r.output),
                           !.steps = Step(progress, @)])

\* A build that consumes the stored instances.
BuildConsumes(progress) ==
    LET r == BuildFrom(1, progress,
                 [side_effects |-> <<>>, trace |-> <<>>, steps |-> 0, exc |-> NoExc])
    IN /\ call' = [op |-> "build", args |-> [NoArgs EXCEPT !.progress = progress],
                   trace |-> r.trace, steps |-> r.steps, exc |-> r.exc,
                   ret |-> IF r.exc = NoExc THEN r.side_effects ELSE <<>>,
                   returned |-> r.exc = NoExc,
                   decorated |-> "None", warnings |-> <<>>]
       /\ op_builds' = [g \in {h \in DOMAIN op_builds :
                                   \A k \in 1..Len(r.trace) : r.trace[k].ops # h}
                           |-> op_builds[g]]
       /\ UNCHANGED <<builders, regCount, latest, plan, config, signals,
                      mvars, nvars, ovars>>

\* Builder.build(progress): the side effects are returned only when the loop
\* ran to its end.
Build(progress) ==
    LET r == BuildFrom(1, progress,
                 [side_effects |-> <<>>, trace |-> <<>>, steps |-> 0, exc |-> NoExc])
    IN /\ call' = [op |-> "build", args |-> [NoArgs EXCEPT !.progress = progress],
                   trace |-> r.trace, steps |-> r.steps, exc |-> r.exc,
                   ret |-> IF r.exc = NoExc THEN r.side_effects ELSE <<>>,
                   returned |-> r.exc = NoExc,
                   decorated |-> "None", warnings |-> <<>>]
       /\ UNCHANGED <<builders, regCount, latest, plan, config, signals,
                      op_builds, mvars, nvars, ovars>>

\* ------------------------------------------------------- Builder.post_build

Sessions == {"sess1"}

Rngs == {"rng1", "rng2"}

RECURSIVE PostBuildFromForked(_, _, _, _, _)
\* A post_build that hands the generator to the first group only.
PostBuildFromForked(i, sess, rng, progress, st) ==
    IF i > Len(plan) THEN st
    ELSE LET ops == GroupAt(i) IN
         IF TypeOf(ops) \notin DOMAIN builders
         THEN [st EXCEPT !.exc = Raise("KeyError", "name_scope", TypeOf(ops), i)]
         ELSE IF ops \notin DOMAIN op_builds
         THEN [st EXCEPT !.exc = Raise("KeyError", "op_builds", TypeOf(ops), i)]
         ELSE LET inst == op_builds[ops]
                  own == IF i = 1 THEN rng ELSE "None"
                  ev == Event("build_post", ops, inst.cls, name_scope(ops),
                              st.signals, sess, own)
                  r == build_post(inst.cls, ops, st.signals, sess, own)
              IN PostBuildFromForked(i + 1, sess, rng, progress,
                     [st EXCEPT !.trace = Append(@, ev),
                                !.signals = r.signals,
                                !.steps = Step(progress, @)])

RECURSIVE PostBuildFrom(_, _, _, _, _)
\* The loop of post_build from plan position i on.
PostBuildFrom(i, sess, rng, progress, st) ==
    IF i > Len(plan) THEN st
    ELSE LET ops == GroupAt(i) IN
         IF TypeOf(ops) \notin DOMAIN builders
         THEN [st EXCEPT !.exc = Raise("KeyError", "name_scope", TypeOf(ops), i)]
         ELSE IF ops \notin DOMAIN op_builds
         THEN [st EXCEPT !.exc = Raise("KeyError", "op_builds", TypeOf(ops), i)]
         ELSE LET inst == op_builds[ops]
                  ev == Event("build_post", ops, inst.cls, name_scope(ops),
                              st.signals, sess, rng)
                  r == build_post(inst.cls, ops, st.signals, sess, rng)
              IN IF r.exc # NoExc
                 THEN [st EXCEPT !.trace = Append(@, ev), !.exc = At(r.exc, i)]
                 ELSE PostBuildFrom(i + 1, sess, rng, progress,
                        [st EXCEPT !.trace = Append(@, ev),
                                   !.signals = r.signals,
                                   !.steps = Step(progress, @)])

\* Builder.post_build(sess, rng, progress)
PostBuild(sess, rng, progress) ==
    LET r == PostBuildFrom(1, sess, rng, progress,
                 [signals |-> signals, trace |-> <<>>, steps |-> 0, exc |-> NoExc])
    IN /\ signals' = r.signals
       /\ call' = [op |-> "post_build",
                   args |-> [NoArgs EXCEPT !.progress = progress,
                                           !.sess = sess, !.rng = rng],
                   trace |-> r.trace, steps |-> r.steps, exc |-> r.exc,
                   ret |-> <<>>, returned |-> r.exc = NoExc,
                   decorated |-> "None", warnings |-> <<>>]
       /\ UNCHANGED <<builders, regCount, latest, plan, config, op_builds, mvars, nvars, ovars>>

\* --------------------------------------------------------- NengoModel.add_op

\* The operators added to a model: init_signals and make_step of an operator
\* either return or raise.
ModelOps == {[id |-> n, init_ok |-> a, step_ok |-> b] :
             n \in 1..2, a \in BOOLEAN, b \in BOOLEAN}

\* An add_op that runs the check whatever the flag says.
FailFastAlways(ff, op) ==
    IF ~op.init_ok
    THEN [trace |-> <<"SignalDict", "init_signals">>,
          exc |-> Raise("OpError", "init_signals", "", op.id)]
    ELSE IF ~op.step_ok
    THEN [trace |-> <<"SignalDict", "init_signals", "make_step">>,
          exc |-> Raise("OpError", "make_step", "", op.id)]
    ELSE [trace |-> <<"SignalDict", "init_signals", "make_step">>, exc |-> NoExc]

\* Lines 365-369: with fail_fast, a fresh SignalDict is made, op.init_signals
\* is called on it and then op.make_step; the first one that raises ends the
\* call.  Without fail_fast nothing is called.
FailFastCheck(ff, op) ==
    IF ~ff THEN [trace |-> <<>>, exc |-> NoExc]
    ELSE IF ~op.init_ok
    THEN [trace |-> <<"SignalDict", "init_signals">>,
          exc |-> Raise("OpError", "init_signals", "", op.id)]
    ELSE IF ~op.step_ok
    THEN [trace |-> <<"SignalDict", "init_signals", "make_step">>,
          exc |-> Raise("OpError", "make_step", "", op.id)]
    ELSE [trace |-> <<"SignalDict", "init_signals", "make_step">>, exc |-> NoExc]

\* self.operators.append(op)
AppendOp(ops, op) == Append(ops, op)

\* An add_op that runs the fail-fast check before it appends.
AddOpChecksFirst(op) ==
    /\ Len(operators) < MaxOps
    /\ LET r == FailFastCheck(fail_fast, op)
       IN /\ added' = [op |-> op, trace |-> r.trace, exc |-> r.exc]
          /\ operators' = IF r.exc = NoExc THEN AppendOp(operators, op)
                                           ELSE operators
    /\ UNCHANGED <<fail_fast, bvars, nvars, ovars>>

\* NengoModel.add_op(op)
AddOp(op) ==
    /\ Len(operators) < MaxOps
    /\ operators' = AppendOp(operators, op)
    /\ LET r == FailFastCheck(fail_fast, op)
       IN added' = [op |-> op, trace |-> r.trace, exc |-> r.exc]
    /\ UNCHANGED <<fail_fast, bvars, nvars, ovars>>

\* --------------------------------------------------------- NengoBuilder.build

\* The types of the objects built into a model.
ObjTypes == {"Ensemble", "Node"}

\* Build functions: one that returns, one that raises BuildError, one that
\* raises another exception.
BuildFns == {"returns", "build_error", "value_error"}

BuildArgs == {"args1", "args2"}

\* Builder.build.__func__(cls, model, obj, *args, **kwargs) of nengo: the
\* build function that the registry of cls holds for type(obj) is called with
\* the model, the object and the arguments; BuildError when there is none.
Dispatch(cls, registry, model, obj, args) ==
    IF obj \notin DOMAIN registry
    THEN [model |-> model, ret |-> "None",
          exc |-> Raise("BuildError", "Cannot build object of type %r", obj, 0),
          trace |-> <<[cls |-> cls, obj |-> obj, args |-> args, fn |-> "None"]>>]
    ELSE LET fn == registry[obj]
             tr == <<[cls |-> cls, obj |-> obj, args |-> args, fn |-> fn]>>
         IN CASE fn = "returns" ->
                   [model |-> model \cup {<<cls, obj>>},
                    ret |-> <<cls, obj, args>>, exc |-> NoExc, trace |-> tr]
              [] fn = "build_error" ->
                   [model |-> model, ret |-> "None",
                    exc |-> Raise("BuildError", "build function", obj, 0),
                    trace |-> tr]
              [] fn = "value_error" ->
                   [model |-> model, ret |-> "None",
                    exc |-> Raise("ValueError", "build function", obj, 0),
                    trace |-> tr]

\* A build whose except clause catches every exception.
NengoBuilderBuildCatchAll(model, obj, args) ==
    LET first == Dispatch("NengoBuilder", nbuilders, model, obj, args)
    IN IF first.exc # NoExc
       THEN LET second == Dispatch("Builder", dbuilders, first.model, obj, args)
            IN [second EXCEPT !.trace = first.trace \o @]
       ELSE first

\* A build without the except clause.
NengoBuilderBuildNoFallback(model, obj, args) ==
    Dispatch("NengoBuilder", nbuilders, model, obj, args)

\* Lines 313-321: the dispatch on NengoBuilder's registry, and on BuildError
\* the dispatch on the registry of nengo's Builder.
NengoBuilderBuild(model, obj, args) ==
    LET first == Dispatch("NengoBuilder", nbuilders, model, obj, args)
    IN IF first.exc.type = "BuildError"
       THEN LET second == Dispatch("Builder", dbuilders, first.model, obj, args)
            IN [second EXCEPT !.trace = first.trace \o @]
       ELSE first

NoBuild == [op |-> "None", obj |-> "None", args |-> "None", trace |-> <<>>,
            ret |-> "None", exc |-> NoExc]

\* NengoBuilder.build(model, obj, *args, **kwargs)
NBuild(obj, args) ==
    LET r == NengoBuilderBuild(built, obj, args)
    IN /\ built' = r.model
       /\ ncall' = [op |-> "build", obj |-> obj, args |-> args, trace |-> r.trace,
                    ret |-> r.ret, exc |-> r.exc]
       /\ UNCHANGED <<nbuilders, dbuilders, bvars, mvars, ovars>>

\* NengoBuilder.register(obj_type)(fn): NengoBuilder has its own registry.
RegisterOverride(obj_type, fn) ==
    /\ nbuilders' = DictSet(nbuilders, obj_type, fn)
    /\ ncall' = [NoBuild EXCEPT !.op = "register", !.obj = obj_type, !.args = fn]
    /\ UNCHANGED <<dbuilders, built, bvars, mvars, ovars>>

\* nengo.builder.Builder.register(obj_type)(fn)
RegisterDefault(obj_type, fn) ==
    /\ dbuilders' = DictSet(dbuilders, obj_type, fn)
    /\ ncall' = [NoBuild EXCEPT !.op = "register", !.obj = obj_type, !.args = fn]
    /\ UNCHANGED <<nbuilders, built, bvars, mvars, ovars>>

\* ------------------------------------------------------------ specifications

NoCall == [op |-> "__init__", args |-> NoArgs, trace |-> <<>>, steps |-> 0,
           exc |-> NoExc, ret |-> <<>>, returned |-> TRUE, decorated |-> "None",
           warnings |-> <<>>]

\* Builder.builders = {} and Builder.__init__(plan, graph, signals, config).
InitBuilder ==
    /\ builders = EmptyDict
    /\ regCount = [t \in OpTypes |-> 0]
    /\ latest = [t \in OpTypes |-> "None"]
    /\ plan \in Plans
    /\ config \in Configs
    /\ signals = {}
    /\ op_builds = EmptyDict
    /\ call = NoCall

NoAdd == [op |-> [id |-> 0, init_ok |-> TRUE, step_ok |-> TRUE],
          trace |-> <<>>, exc |-> NoExc]

\* NengoModel.__init__(fail_fast=...)
InitModel ==
    /\ operators = <<>>
    /\ fail_fast \in BOOLEAN
    /\ added = NoAdd

\* NengoBuilder.builders = {}
InitNengo ==
    /\ nbuilders = EmptyDict
    /\ dbuilders = EmptyDict
    /\ built = {}
    /\ ncall = NoBuild

InitMerge == merged = NoMerge

OneBuilder == InitBuilder /\ plan = <<GroupA>>

OneModel == InitModel /\ fail_fast

Init == InitBuilder /\ OneModel /\ InitNengo /\ InitMerge

Next ==
    \/ \E t \in OpTypes, c \in BuildClasses : Register(t, c)
    \/ \E p \in BOOLEAN : PreBuild(p)
    \/ \E p \in BOOLEAN : Build(p)
    \/ \E s \in Sessions, r \in Rngs, p \in BOOLEAN : PostBuild(s, r, p)

\* The registry and the orchestrator.
Spec == Init /\ [][Next]_vars

InitM == OneBuilder /\ InitModel /\ InitNengo /\ InitMerge

NextModel == \E op \in ModelOps : AddOp(op)

\* NengoModel.
SpecModel == InitM /\ [][NextModel]_vars

InitN == OneBuilder /\ OneModel /\ InitNengo /\ InitMerge

NextNengo ==
    \/ \E t \in ObjTypes, f \in BuildFns : RegisterOverride(t, f)
    \/ \E t \in ObjTypes, f \in BuildFns : RegisterDefault(t, f)
    \/ \E o \in ObjTypes, a \in BuildArgs : NBuild(o, a)

\* NengoBuilder.
SpecNengo == InitN /\ [][NextNengo]_vars

\* The instances of the base class, one per group and config.
BaseInstances == {NewInstance("OpBuilder", g, c) : g \in Groups, c \in Configs}

NextMerge ==
    \E self \in BaseInstances, x \in MergeOps, y \in MergeOps :
        Mergeable(self, x, y)

\* OpBuilder.mergeable.
SpecMerge == InitN /\ [][NextMerge]_vars

\* -------------------------------------------------------------------- claims

PlanGroups == {plan[i] : i \in 1..Len(plan)}

\* How often the last call made the call ev on the group ops.
Calls(ev, ops) ==
    Cardinality({k \in 1..Len(call.trace) :
                   call.trace[k].ev = ev /\ call.trace[k].ops = ops})

\* Every operator type of the plan has been registered exactly once.
AllOnce == \A i \in 1..Len(plan) : regCount[TypeOf(plan[i])] = 1

\* Some pre_build call has returned normally: only then does op_builds hold
\* every group of the plan.
PreBuilt == DOMAIN op_builds = PlanGroups

\* pre_build of a plan whose types are registered once returns normally and
\* leaves one instance per group, of the registered class, each constructed
\* once in the call.
OneInstancePerGroup ==
    (call.op = "pre_build" /\ AllOnce) =>
        /\ call.exc = NoExc
        /\ DOMAIN op_builds = PlanGroups
        /\ \A g \in PlanGroups :
              /\ op_builds[g] = NewInstance(builders[TypeOf(g)], g, config)
              /\ Calls("construct", g) = 1

\* C1 as stated: with every operator type of the plan registered exactly
\* once, pre_build leaves exactly one instance per plan group, and every
\* build() call after it invokes build_step exactly once for each group.
C1_AsStated ==
    /\ OneInstancePerGroup
    /\ (call.op = "build" /\ AllOnce /\ PreBuilt) =>
          \A g \in PlanGroups : Calls("build_step", g) = 1

\* C1 amended: with every operator type of the plan registered exactly once,
\* pre_build leaves exactly one instance per plan group; a build() call after
\* it that returns normally has invoked build_step exactly once for each
\* group, and one that raises has invoked it once for each group up to the
\* failing one and for no later group.
C1_OncePerGroup ==
    /\ OneInstancePerGroup
    /\ (call.op = "build" /\ AllOnce /\ PreBuilt) =>
          /\ call.exc = NoExc => \A g \in PlanGroups : Calls("build_step", g) = 1
          /\ call.exc # NoExc =>
                /\ call.exc.pos \in 1..Len(plan)
                /\ \A i \in 1..Len(plan) :
                      Calls("build_step", plan[i]) =
                          IF i <= call.exc.pos THEN 1 ELSE 0

C1_Witness ==
    /\ call.op = "build" /\ AllOnce /\ PreBuilt
    /\ Len(plan) = 3
    /\ call.exc = NoExc
    /\ Len(call.trace) = 3

\* The elements that the output of one group adds to the side effects.
Contribution(output) ==
    CASE output.kind \in {"Tensor", "Variable"} -> <<output.val[1]>>
      [] output.kind \in {"list", "tuple"} -> output.val
      [] OTHER -> <<>>

RECURSIVE Flattened(_)
\* The outputs of the groups at plan positions n+1, n+2, ... flattened.
Flattened(n) ==
    IF n >= Len(plan) THEN <<>>
    ELSE Contribution(StepOutput(op_builds[plan[n + 1]].cls, plan[n + 1]))
         \o Flattened(n + 1)

\* C2: what build() returns is the outputs of the groups' build_step in plan
\* order, a tensor or variable as one element, a list or tuple expanded into
\* its elements, any other output (None too) as no element.
C2_FlattenedUnion ==
    (call.op = "build" /\ call.exc = NoExc) => call.ret = Flattened(0)

C2_Witness ==
    /\ call.op = "build" /\ call.exc = NoExc
    /\ Len(plan) = 3
    /\ op_builds[plan[1]].cls = "ListBuilder" /\ Len(plan[1]) = 2
    /\ op_builds[plan[2]].cls = "NoneBuilder"
    /\ op_builds[plan[3]].cls = "ListBuilder"
    /\ Len(call.ret) = 3

\* C3: a pre_build that meets a group whose first operator's type was never
\* registered raises a BuildError that names that type, and op_builds has no
\* entry for that group afterwards.
C3_UnregisteredFails ==
    (call.op = "pre_build" /\ \E i \in 1..Len(plan) : regCount[TypeOf(plan[i])] = 0) =>
        LET k == CHOOSE i \in 1..Len(plan) :
                    /\ regCount[TypeOf(plan[i])] = 0
                    /\ \A j \in 1..(i - 1) : regCount[TypeOf(plan[j])] # 0
        IN /\ call.exc = Raise("BuildError", UnregisteredError, TypeOf(plan[k]), k)
           /\ ~call.returned
           /\ \A i \in 1..Len(plan) :
                 regCount[TypeOf(plan[i])] = 0 => plan[i] \notin DOMAIN op_builds

C3_Witness ==
    /\ call.op = "pre_build"
    /\ Len(plan) = 3
    /\ call.exc.type = "BuildError" /\ call.exc.pos = 2
    /\ plan[1] \in DOMAIN op_builds

\* C4: a second registration of an operator type does not raise and warns
\* that the builder is overwritten, the registry then holds the build class
\* of the second registration, and every pre_build constructs, for each group
\* it reaches, the class of the latest registration of the group's type.
C4_SecondWins ==
    /\ call.op = "register" =>
          /\ call.exc = NoExc /\ call.returned
          /\ builders[call.args.nengo_op] = call.args.build_class
          /\ regCount[call.args.nengo_op] >= 2 =>
                \E k \in 1..Len(call.warnings) :
                    call.warnings[k] = [msg |-> OverwriteWarning,
                                        arg |-> call.args.nengo_op]
    /\ call.op = "pre_build" =>
          \A k \in 1..Len(call.trace) :
              LET ops == call.trace[k].ops
              IN /\ call.trace[k].cls = latest[TypeOf(ops)]
                 /\ op_builds[ops].cls = latest[TypeOf(ops)]

C4_Witness ==
    /\ call.op = "pre_build" /\ call.exc = NoExc
    /\ regCount["T1"] = 2
    /\ GroupA \in DOMAIN op_builds
    /\ Calls("construct", GroupA) = 1

\* C5: pre_build constructs the builders in plan order: the j-th constructor
\* call of a pre_build is for the group at plan position j, and the signals
\* it is given hold what the constructors of the groups before it wrote.
C5_PlanOrder ==
    call.op = "pre_build" =>
        /\ Len(call.trace) =
               IF call.exc = NoExc THEN Len(plan) ELSE call.exc.pos - 1
        /\ \A j \in 1..Len(call.trace) :
              /\ call.trace[j].ev = "construct"
              /\ call.trace[j].ops = plan[j]
              /\ \A i \in 1..(j - 1) :
                    InitWrites(call.trace[i].cls, plan[i]) \subseteq call.trace[j].seen

C5_Witness ==
    /\ call.op = "pre_build" /\ call.exc = NoExc
    /\ Len(plan) = 3
    /\ call.trace[1].seen = {}
    /\ call.trace[3].seen = {plan[1], plan[2]}

\* What build() would do in the current state.
BuildOutcome ==
    BuildFrom(1, FALSE,
              [side_effects |-> <<>>, trace |-> <<>>, steps |-> 0, exc |-> NoExc])

\* What post_build(sess, rng) would do in the current state.
PostBuildOutcome(sess, rng) ==
    PostBuildFrom(1, sess, rng, FALSE,
                  [signals |-> signals, trace |-> <<>>, steps |-> 0, exc |-> NoExc])

\* C6: on an orchestrator on which build() succeeds, post_build does not
\* raise, a second post_build with the same session and generator right
\* after it does not raise either, and build() still succeeds afterwards,
\* with the same result.
C6_PostBuildTwice ==
    [][(call'.op = "post_build" /\ BuildOutcome.exc = NoExc) =>
          /\ call'.exc = NoExc
          /\ \A s \in Sessions, r \in Rngs :
                (call'.args.sess = s /\ call'.args.rng = r) =>
                    PostBuildOutcome(s, r)'.exc = NoExc
          /\ BuildOutcome'.exc = NoExc
          /\ BuildOutcome'.side_effects = BuildOutcome.side_effects
          /\ op_builds' = op_builds]_vars

C6_Witness ==
    /\ call.op = "post_build" /\ call.exc = NoExc
    /\ Len(plan) = 3
    /\ signals = PlanGroups
    /\ BuildOutcome.exc = NoExc
    /\ Len(BuildOutcome.side_effects) = 4

\* C7: with fail_fast, add_op raises when init_signals or make_step of the
\* operator raises; without fail_fast add_op returns and calls neither.
C7_FailFast ==
    added # NoAdd =>
        /\ (fail_fast /\ ~(added.op.init_ok /\ added.op.step_ok)) =>
               /\ added.exc # NoExc
               /\ added.exc.msg = IF added.op.init_ok THEN "make_step"
                                  ELSE "init_signals"
        /\ ~fail_fast =>
               /\ added.exc = NoExc
               /\ \A k \in 1..Len(added.trace) :
                     added.trace[k] \notin {"init_signals", "make_step"}

C7_Witness ==
    /\ fail_fast
    /\ added # NoAdd
    /\ added.op.init_ok /\ ~added.op.step_ok
    /\ added.exc.msg = "make_step"

\* The outcome of the dispatch on the registry of nengo's Builder for the
\* object and arguments of the last build call.
DefaultOutcome == Dispatch("Builder", dbuilders, built, ncall.obj, ncall.args)

\* The last call was a build of an object whose type has no override.
NoOverride == ncall.op = "build" /\ ncall.obj \notin DOMAIN nbuilders

\* C8 as stated: a build of an object whose type has no override raises
\* nothing and returns what the dispatch on the default registry returns.
C8_AsStated ==
    NoOverride => (ncall.exc = NoExc /\ ncall.ret = DefaultOutcome.ret)

\* C8 amended: a build of an object whose type has no override does not
\* surface the miss: after the miss it runs the default dispatch once, on the
\* same object and arguments, and its outcome is that dispatch's outcome, the
\* value it returns or the exception it raises.
C8_FallsBack ==
    NoOverride =>
        /\ Len(ncall.trace) = 2
        /\ ncall.trace[1] = [cls |-> "NengoBuilder", obj |-> ncall.obj,
                             args |-> ncall.args, fn |-> "None"]
        /\ <<ncall.trace[2]>> = DefaultOutcome.trace
        /\ ncall.ret = DefaultOutcome.ret
        /\ ncall.exc = DefaultOutcome.exc
        /\ ncall.exc = NoExc => <<"Builder", ncall.obj>> \in built

C8_Witness ==
    /\ NoOverride
    /\ ncall.obj \in DOMAIN dbuilders
    /\ dbuilders[ncall.obj] = "returns"
    /\ ncall.ret = <<"Builder", ncall.obj, ncall.args>>
    /\ DOMAIN nbuilders # {}

\* C9: when build() reaches a group whose stored builder is of a class that
\* does not override build_step, it raises BuildError at that group and
\* returns nothing.
C9_UnimplementedStep ==
    call.op = "build" =>
        \A k \in 1..Len(call.trace) :
            ~OverridesBuildStep(op_builds[call.trace[k].ops].cls) =>
                /\ call.exc = Raise("BuildError", BuildStepError, "OpBuilder", k)
                /\ call.trace[k].ops = plan[k]
                /\ k = Len(call.trace)
                /\ ~call.returned /\ call.ret = <<>>

C9_Witness ==
    /\ call.op = "build"
    /\ Len(plan) = 3
    /\ Len(call.trace) = 2
    /\ op_builds[plan[1]].cls = "TensorBuilder"
    /\ op_builds[plan[2]].cls = "OpBuilder"
    /\ call.exc.type = "BuildError"

\* C10: the registry only grows: an operator type that has been registered
\* is mapped to a build class in every later state, the keys of the registry
\* never shrink, and no call but register changes the registry.
C10_RegistryGrows ==
    /\ [](\A t \in OpTypes : regCount[t] > 0 => t \in DOMAIN builders)
    /\ [][/\ DOMAIN builders \subseteq DOMAIN builders'
          /\ call'.op # "register" => builders' = builders]_vars

C10_Witness ==
    /\ call.op = "post_build"
    /\ regCount["T1"] = 2
    /\ DOMAIN builders = {"T1"}

\* C11: post_build calls build_post on the groups in plan order, each group
\* at most once and every group once when the call returns, and every call
\* gets the session and the generator that post_build was given.
C11_SharedGenerator ==
    call.op = "post_build" =>
        /\ Len(call.trace) =
               IF call.exc = NoExc THEN Len(plan) ELSE call.exc.pos - 1
        /\ \A k \in 1..Len(call.trace) :
              /\ call.trace[k].ev = "build_post"
              /\ call.trace[k].ops = plan[k]
              /\ call.trace[k].sess = call.args.sess
              /\ call.trace[k].rng = call.args.rng
        /\ PreBuilt => (call.returned /\ \A g \in PlanGroups : Calls("build_post", g) = 1)

C11_Witness ==
    /\ call.op = "post_build" /\ call.returned
    /\ Len(plan) = 3
    /\ call.args.rng = "rng2"
    /\ \A k \in 1..3 : call.trace[k].rng = "rng2" /\ call.trace[k].ops = plan[k]

\* C12: registering a class that is no subclass of OpBuilder warns and does
\* not raise: the registry then holds the class for the operator type, the
\* decorator returns the class, and a pre_build constructs it for the groups
\* of a type whose latest registration it is.
C12_NonSubclassStored ==
    /\ (call.op = "register" /\ ~IsOpBuilder(call.args.build_class)) =>
          /\ call.exc = NoExc /\ call.returned
          /\ \E k \in 1..Len(call.warnings) :
                call.warnings[k].msg = NotSubclassWarning
          /\ call.args.nengo_op \in DOMAIN builders
          /\ builders[call.args.nengo_op] = call.args.build_class
          /\ call.decorated = call.args.build_class
    /\ call.op = "pre_build" =>
          \A k \in 1..Len(call.trace) :
              LET ops == call.trace[k].ops
              IN ~IsOpBuilder(latest[TypeOf(ops)]) =>
                    /\ ~IsOpBuilder(call.trace[k].cls)
                    /\ op_builds[ops] = NewInstance(latest[TypeOf(ops)], ops, config)

C12_Witness ==
    /\ call.op = "pre_build" /\ call.returned
    /\ latest["T1"] = "PlainBuilder"
    /\ GroupA \in DOMAIN op_builds
    /\ op_builds[GroupA].cls = "PlainBuilder"

\* C13: mergeable on the base class returns False for every pair of
\* operators, the pair of an operator with itself included.
C13_NeverMergeable ==
    merged # NoMerge =>
        merged.ret = FALSE

C13_Witness ==
    /\ merged # NoMerge
    /\ merged.self.cls = "OpBuilder"
    /\ merged.x = merged.y
    /\ merged.ret = FALSE

\* The override attempt of the last build raised a BuildError: there is no
\* override for the type of the object, or the override raises BuildError.
OverrideBuildError ==
    \/ ncall.obj \notin DOMAIN nbuilders
    \/ nbuilders[ncall.obj] = "build_error"

\* The default compiler was invoked by the last build.
DefaultInvoked ==
    \E k \in 1..Len(ncall.trace) : ncall.trace[k].cls = "Builder"

\* C14: NengoBuilder.build tries the override first and invokes the default
\* compiler exactly when that attempt raised a BuildError (no override, or an
\* override raising BuildError); an override that returns has its result
\* returned without the default compiler, and an override raising another
\* exception has that exception propagate without the default compiler.
C14_FallbackOnBuildErrorOnly ==
    ncall.op = "build" =>
        /\ Len(ncall.trace) >= 1
        /\ ncall.trace[1].cls = "NengoBuilder"
        /\ DefaultInvoked <=> OverrideBuildError
        /\ DefaultInvoked =>
              /\ Len(ncall.trace) = 2
              /\ ncall.trace[2].obj = ncall.obj
              /\ ncall.trace[2].args = ncall.args
        /\ ~OverrideBuildError =>
              /\ Len(ncall.trace) = 1
              /\ nbuilders[ncall.obj] = "returns" =>
                    /\ ncall.exc = NoExc
                    /\ ncall.ret = <<"NengoBuilder", ncall.obj, ncall.args>>
                    /\ <<"NengoBuilder", ncall.obj>> \in built
              /\ nbuilders[ncall.obj] = "value_error" =>
                    /\ ncall.exc.type = "ValueError"
                    /\ ncall.exc.arg = ncall.obj

\* An override that raises BuildError, with a default that returns.
C14_Witness ==
    /\ ncall.op = "build"
    /\ ncall.obj \in DOMAIN nbuilders
    /\ nbuilders[ncall.obj] = "build_error"
    /\ DefaultInvoked
    /\ ncall.exc = NoExc
    /\ ncall.ret = <<"Builder", ncall.obj, ncall.args>>

\* What a pre_build call that raised at plan position k has done and left.
AbortedAt(k) ==
    /\ Len(call'.trace) = k - 1
    /\ call'.steps = IF call'.args.progress THEN k - 1 ELSE 0
    /\ \A i \in 1..Len(plan) :
          /\ i < k =>
                /\ call'.trace[i].ev = "construct"
                /\ call'.trace[i].ops = plan[i]
                /\ plan[i] \in DOMAIN op_builds'
                /\ op_builds'[plan[i]] =
                       NewInstance(builders[TypeOf(plan[i])], plan[i], config)
          /\ i >= k =>
                /\ Calls("construct", plan[i])' = 0
                /\ plan[i] \notin DOMAIN op_builds'
                /\ plan[i] \notin DOMAIN op_builds

\* C15: a pre_build that raises at plan position k stops there: it has
\* constructed and stored a builder, and advanced the progress, for exactly
\* the groups before position k, whose entries stay in op_builds, and it has
\* constructed and stored nothing for the group at position k and the groups
\* after it.
C15_AbortsAtFailingGroup ==
    [][(call'.op = "pre_build" /\ call'.exc # NoExc) =>
           /\ call'.exc.pos \in 1..Len(plan)
           /\ ~call'.returned
           /\ \A k \in 1..Len(plan) : call'.exc.pos = k => AbortedAt(k)]_vars

\* A pre_build with progress that raised at the last of three groups.
C15_Witness ==
    /\ call.op = "pre_build" /\ call.exc.type = "BuildError"
    /\ call.args.progress
    /\ Len(plan) = 3 /\ call.exc.pos = 3
    /\ call.steps = 2
    /\ DOMAIN op_builds = {plan[1], plan[2]}

\* The plan positions whose group has no entry in op_builds.
Missing == {i \in 1..Len(plan) : plan[i] \notin DOMAIN op_builds}

FirstMissing == CHOOSE i \in Missing : \A j \in Missing : i <= j

\* The last call was a build or a post_build, made while some group of the
\* plan had no entry in op_builds (neither call changes op_builds).
PhaseWithMissing == call.op \in {"build", "post_build"} /\ Missing # {}

\* The last call invoked neither build_step nor build_post on the first
\* group without an entry or on any group after it.
NoneFromFirstMissing ==
    \A i \in FirstMissing..Len(plan) :
        Calls("build_step", plan[i]) = 0 /\ Calls("build_post", plan[i]) = 0

\* C16 as stated: build or post_build with a group missing from op_builds
\* fails at the first such group, having invoked nothing on it or on a later
\* group, and build returns no side effects.
C16_AsStated ==
    PhaseWithMissing =>
        /\ call.exc # NoExc /\ ~call.returned
        /\ call.exc.pos = FirstMissing
        /\ NoneFromFirstMissing
        /\ call.ret = <<>>

\* C16 amended: build or post_build with a group missing from op_builds
\* fails no later than the first such group, having invoked nothing on it or
\* on a later group, and returns nothing: post_build fails at that group with
\* a KeyError; build fails at that group with a KeyError, or at an earlier
\* group whose stored builder's build_step raised.
C16_FailsByFirstMissing ==
    PhaseWithMissing =>
        /\ call.exc # NoExc /\ ~call.returned
        /\ call.exc.pos \in 1..FirstMissing
        /\ NoneFromFirstMissing
        /\ call.ret = <<>>
        /\ call.exc.pos = FirstMissing =>
              /\ call.exc.type = "KeyError"
              /\ Len(call.trace) = FirstMissing - 1
        /\ call.exc.pos < FirstMissing =>
              /\ call.op = "build"
              /\ Len(call.trace) = call.exc.pos
              /\ call.trace[call.exc.pos].ev = "build_step"
              /\ call.trace[call.exc.pos].ops = plan[call.exc.pos]
              /\ build_step(op_builds[plan[call.exc.pos]].cls,
                            plan[call.exc.pos], signals).exc # NoExc

\* A build that ran the first group and failed at the second, which has no
\* entry although its type is registered.
C16_Witness ==
    /\ call.op = "build"
    /\ Len(plan) = 3 /\ Missing = {2, 3}
    /\ call.exc = Raise("KeyError", "op_builds", TypeOf(plan[2]), 2)
    /\ Len(call.trace) = 1

\* C17: the keys of op_builds are always groups of the plan; op_builds is
\* empty after construction, and after a pre_build that returned its keys
\* are exactly the groups of the plan.
C17_KeysArePlanGroups ==
    /\ DOMAIN op_builds \subseteq PlanGroups
    /\ call.op = "__init__" => DOMAIN op_builds = {}
    /\ (call.op = "pre_build" /\ call.returned) => DOMAIN op_builds = PlanGroups

\* A pre_build over three groups that returned: three keys, the plan's groups.
C17_Witness ==
    /\ call.op = "pre_build" /\ call.returned
    /\ Len(plan) = 3
    /\ Cardinality(DOMAIN op_builds) = 3
    /\ DOMAIN op_builds = {plan[1], plan[2], plan[3]}

\* Every build_step or build_post of the last call ran on the instance that
\* op_builds holds for the group, under the name that the registry now holds
\* for the group's type.
RunsStoredInstances ==
    call.op \in {"build", "post_build"} =>
        \A k \in 1..Len(call.trace) :
            LET ops == call.trace[k].ops
            IN /\ ops \in DOMAIN op_builds
               /\ call.trace[k].cls = op_builds[ops].cls
               /\ call.trace[k].scope = builders[TypeOf(ops)]

\* pre_build stores, for each group it reaches, an instance of the class
\* registered for the group's type when pre_build runs.
StoresRegisteredClass ==
    call'.op = "pre_build" =>
        \A k \in 1..Len(call'.trace) :
            LET ops == call'.trace[k].ops
            IN op_builds'[ops].cls = builders[TypeOf(ops)]

\* C18: build and post_build run the instances that the most recent
\* pre_build stored: pre_build stores instances of the classes registered at
\* that time, no other call (a registration least of all) touches op_builds,
\* and build_step/build_post run on the stored instance while the name scope
\* is that of the class the registry holds at the time of the call.
C18_StoredInstancesOutliveRegistry ==
    /\ []RunsStoredInstances
    /\ [][StoresRegisteredClass]_vars
    /\ [][call'.op # "pre_build" => op_builds' = op_builds]_vars

\* A build after a re-registration: build_step ran on an instance of the
\* class registered before, under the name of the class registered after.
C18_Witness ==
    /\ call.op = "build"
    /\ Len(call.trace) >= 1
    /\ call.trace[1].cls = "TensorBuilder"
    /\ call.trace[1].scope = "ListBuilder"
    /\ builders[TypeOf(plan[1])] = "ListBuilder"
    /\ op_builds[plan[1]].cls = "TensorBuilder"

\* C19: build and post_build leave op_builds as it is, entry for entry, and
\* no call of pre_build, build or post_build changes the plan or the config;
\* pre_build is the phase that writes op_builds.
C19_OnlyPreBuildWrites ==
    [][/\ call'.op \in {"build", "post_build"} =>
             /\ DOMAIN op_builds' = DOMAIN op_builds
             /\ \A g \in DOMAIN op_builds : op_builds'[g] = op_builds[g]
       /\ call'.op \in {"pre_build", "build", "post_build"} =>
             /\ plan' = plan
             /\ config' = config
       /\ op_builds' # op_builds => call'.op = "pre_build"]_vars

\* A build over three stored groups that ran them all and left them stored.
C19_Witness ==
    /\ call.op = "build" /\ call.returned
    /\ Len(plan) = 3 /\ Len(call.trace) = 3
    /\ DOMAIN op_builds = PlanGroups

\* C20: add_op appends the operator before the fail-fast check: every
\* add_op call, one that raises under fail_fast included, makes the list one
\* longer with the operator as its last element and leaves the elements
\* before it as they were.
C20_AppendedBeforeCheck ==
    [][added' # added \/ operators' # operators =>
           /\ Len(operators') = Len(operators) + 1
           /\ operators'[Len(operators')] = added'.op
           /\ \A i \in 1..Len(operators) : operators'[i] = operators[i]
           /\ added'.exc # NoExc =>
                 /\ fail_fast
                 /\ operators' # operators]_vars

\* An add_op that raised in the check of the second operator added.
C20_Witness ==
    /\ fail_fast
    /\ added.exc # NoExc
    /\ Len(operators) = 2
    /\ operators[2] = added.op
    /\ operators[1] # added.op

====
